---- MODULE Spec2Model ----
(***************************************************************************)
(* Model of the video-generation / Volt-chat backend (main.py, database.py,*)
(* schemas.py).  The store is three collections of documents; request      *)
(* handlers are atomic actions; each background task is split at its store *)
(* writes.  A store write (insert_one / update_one) either takes effect or *)
(* raises without effect (the input write_ok); reads are answered.  A      *)
(* handler is given by the status it answers with and by the collections   *)
(* and task lists it leaves, as operators of the state and its inputs.     *)
(*                                                                         *)
(* Specifications.  Spec holds the wall clock still (every timestamp is    *)
(* the same instant); SpecClock lets it run, between operations and        *)
(* between the two datetime.now() calls of create_document.  FairSpec is   *)
(* Spec with every scheduled background task run to its end.  SpecCrash is *)
(* Spec in a process that can die, losing its tasks, and start again.      *)
(*                                                                         *)
(* Abstractions.  A text is a record [kind, len]: what it says and how     *)
(* many characters it has, so that slicing s[:n] is Min(len, n).  An       *)
(* Optional value is <<>> (None) or <<v>>.  An ObjectId is a positive      *)
(* number; the strings a caller can send as an id are records [valid,      *)
(* hex]: whether it is 24 hex digits, and which ObjectId it then spells.   *)
(***************************************************************************)
EXTENDS Integers, Sequences, FiniteSets, TLC

\* ---------------------------------------------------------------- bounds
MaxCalls == 3        \* POST requests that reach the store in one run
MaxClock == 1        \* last instant a running wall clock reaches

\* ------------------------------------------------------- program constants
ErrorSlice == 500        \* str(e)[:500]
ReplyErrorSlice == 300   \* str(e)[:300]
ShortTextLen == 4        \* len(user_text.strip()) < 4
MinDuration == 1         \* Field(5, ge=1, le=60)
MaxDuration == 60
DefaultDuration == 5
DefaultLimit == 100      \* list_messages(limit=100)
NotConfiguredLen == 37   \* len("VEO3_API_KEY not configured on server")

VARIABLES
    db,            \* database.db is not None
    api_key,       \* os.getenv("VEO3_API_KEY") is truthy
    now,           \* datetime.now(timezone.utc)
    last_instant,  \* the last instant the clock reaches in this run
    videorequest,  \* collection "videorequest", in insertion order; _id = index
    conversation,  \* collection "conversation"
    chatmessage,   \* collection "chatmessage"
    veo3_tasks,    \* background.add_task(process_veo3_job, ...) units, in scheduling order
    volt_tasks,    \* background.add_task(process_volt_reply, ...) units
    calls,         \* POST requests that reached the store so far
    returned       \* conversation ids create_conversation has returned

vars == <<db, api_key, now, last_instant, videorequest, conversation, chatmessage,
          veo3_tasks, volt_tasks, calls, returned>>

\* ------------------------------------------------------------ value model
None == <<>>
Some(v) == <<v>>
Min(a, b) == IF a < b THEN a ELSE b

Str(kind, len) == [kind |-> kind, len |-> len]
\* s[:n]
Slice(s, n) == [kind |-> s.kind, len |-> Min(s.len, n)]

\* str(ObjectId(n))
StrOfOid(n) == [valid |-> TRUE, hex |-> n]
\* ObjectId(s) succeeds
OidValid(s) == s.valid
\* ObjectId(s), for a valid s
ObjectId(s) == s.hex

\* the texts of the exceptions a failing store write raises
ExcTexts == {Str("store error", 40), Str("store error", 501)}

\* inputs of the POST bodies
Models == {"sora2", "veo3"}
Prompts == {"a prompt"}
Durations == {0, DefaultDuration}
UserTexts == {Str("hi", 2), Str("commands?", 9)}
\* the ids a caller can send: a malformed one, those of the conversations
\* created so far, and one that names no conversation
IdStrings(n) == {[valid |-> FALSE, hex |-> 0]} \cup {StrOfOid(i) : i \in 1..(n + 1)}

\* ----------------------------------------------------------- database.py
\* data_dict with created_at / updated_at stamped (two datetime.now() calls)
Stamped(data, c, u) ==
    [k \in (DOMAIN data) \cup {"created_at", "updated_at"} |->
        IF k = "created_at" THEN c ELSE IF k = "updated_at" THEN u ELSE data[k]]

\* faulty variant, for comparison: the insert replaces the newest document
create_document_overwrites(coll, data, c, u) ==
    IF coll = <<>> THEN <<Stamped(data, c, u)>>
    ELSE [coll EXCEPT ![Len(coll)] = Stamped(data, c, u)]

\* db[collection].insert_one(data_dict): the collection after the insert
create_document(coll, data, c, u) == Append(coll, Stamped(data, c, u))

\* {"$set": update_data} applied to one document
SetFields(doc, update_data) ==
    [k \in (DOMAIN doc) \cup (DOMAIN update_data) |->
        IF k \in DOMAIN update_data THEN update_data[k] ELSE doc[k]]

\* faulty variant, for comparison: the update stamps created_at as well
UpdateData_restamps(update, t) ==
    [k \in (DOMAIN update) \cup {"created_at", "updated_at"} |->
        IF k \in {"created_at", "updated_at"} THEN t ELSE update[k]]

\* update_data = update.copy(); update_data['updated_at'] = now
UpdateData(update, t) ==
    [k \in (DOMAIN update) \cup {"updated_at"} |->
        IF k = "updated_at" THEN t ELSE update[k]]

\* faulty variant, for comparison: update_one(..., upsert=True)
update_document_by_id_upsert(coll, doc_id, update, t) ==
    IF ObjectId(doc_id) \in DOMAIN coll
    THEN [i \in DOMAIN coll |->
            IF i = ObjectId(doc_id)
            THEN SetFields(coll[i], UpdateData(update, t))
            ELSE coll[i]]
    ELSE Append(coll, UpdateData(update, t))

\* update_one({"_id": ObjectId(doc_id)}, {"$set": update_data}): the collection
\* after the update; a document is changed only if its _id matches
update_document_by_id(coll, doc_id, update, t) ==
    [i \in DOMAIN coll |->
        IF i = ObjectId(doc_id)
        THEN SetFields(coll[i], UpdateData(update, t))
        ELSE coll[i]]

\* res.modified_count
modified_count(coll, doc_id) ==
    IF ObjectId(doc_id) \in DOMAIN coll THEN 1 ELSE 0

\* what a call of update_document_by_id gives its caller when the store
\* answers: the exception of lines 61-62 or 65-68, or res.modified_count
update_document_by_id_result(coll, doc_id) ==
    IF ~db THEN [raised |-> "Exception"]
    ELSE IF ~OidValid(doc_id) THEN [raised |-> "ValueError"]
    ELSE [modified_count |-> modified_count(coll, doc_id)]

\* cursor.limit(limit) when limit is truthy: how many of n matches are returned
Limited(n, limit) == IF limit # 0 THEN Min(n, limit) ELSE n

\* ------------------------------------------------------------ schemas.py
\* VideoRequest(...) passes validation (duration_seconds: ge=1, le=60)
VideoRequestValid(duration_seconds) ==
    duration_seconds >= MinDuration /\ duration_seconds <= MaxDuration

\* VideoRequest(prompt, model, duration_seconds, aspect_ratio, status="queued")
VideoRequest(prompt, model, duration_seconds, aspect_ratio) ==
    [prompt |-> prompt, model |-> model, duration_seconds |-> duration_seconds,
     aspect_ratio |-> aspect_ratio, status |-> "queued",
     generated_url |-> None, thumbnail_url |-> None, error |-> None]

\* Conversation(title, created_by)
Conversation(title, created_by) == [title |-> title, created_by |-> created_by]

\* ChatMessage(conversation_id, role, content); task is bookkeeping of the
\* model (which reply unit wrote the message, 0 for a request handler)
ChatMessage(conversation_id, role, content, task) ==
    [conversation_id |-> conversation_id, role |-> role, content |-> content,
     task |-> task]

\* ---------------------------------------------------- main.py: generation
\* f"https://cdn.example.com/generated/{request_id}.mp4"
MockVideoUrl(request_id) ==
    <<"https://cdn.example.com/generated/", request_id.hex, ".mp4">>

_simulate_thumbnail(video_url) == Append(video_url, "#thumb.jpg")

\* the three updates process_veo3_job writes
NotConfiguredUpdate ==
    [status |-> "failed",
     error |-> Some(Str("VEO3_API_KEY not configured on server", NotConfiguredLen))]

\* faulty variant, for comparison: the first write already marks the job completed
ProcessingUpdate_completes == [status |-> "completed"]

ProcessingUpdate == [status |-> "processing"]

\* faulty variant, for comparison: the completing write forgets the thumbnail
CompletedUpdate_no_thumbnail(request_id) ==
    [status |-> "completed",
     generated_url |-> Some(MockVideoUrl(request_id)),
     error |-> None]

\* faulty variant, for comparison: the completing write leaves the job processing
CompletedUpdate_stays_processing(request_id) ==
    [status |-> "processing",
     generated_url |-> Some(MockVideoUrl(request_id)),
     thumbnail_url |-> Some(_simulate_thumbnail(MockVideoUrl(request_id))),
     error |-> None]

CompletedUpdate(request_id) ==
    [status |-> "completed",
     generated_url |-> Some(MockVideoUrl(request_id)),
     thumbnail_url |-> Some(_simulate_thumbnail(MockVideoUrl(request_id))),
     error |-> None]

FailedUpdate(e) == [status |-> "failed", error |-> Some(Slice(e, ErrorSlice))]

\* a scheduled process_veo3_job(request_id, payload)
\* (pc: where it stands; e: the exception its handler holds; fault: whether
\* one of its store writes has raised)
\* faulty variant, for comparison: every task is given the first record's id
Veo3Task_first_record(request_id) ==
    [request_id |-> StrOfOid(1), pc |-> "start", e |-> None, fault |-> FALSE]

Veo3Task(request_id) ==
    [request_id |-> request_id, pc |-> "start", e |-> None, fault |-> FALSE]

\* ---------------------------------------------------------- main.py: chat
\* process_volt_reply's heuristic reply
HasKeyword(user_text) == user_text.kind \in {"commands?"}

VoltReply(user_text) ==
    IF user_text.len < ShortTextLen THEN Str("more detail", 0)
    ELSE IF HasKeyword(user_text) THEN Str("features", 0)
    ELSE Str("suggestion", user_text.len)

\* f"Volt: Oops, I hit an error: {str(e)[:300]}"
OopsReply(e) == Str("oops", Slice(e, ReplyErrorSlice).len)

Greeting == Str("greeting", 0)

\* a scheduled process_volt_reply(conversation_id, user_text)
VoltTask(conversation_id, user_text) ==
    [conversation_id |-> conversation_id, user_text |-> user_text,
     pc |-> "start", e |-> None, fault |-> FALSE]

\* db["conversation"].find_one({"_id": oid}) is not None
ConversationExists(oid) == oid \in DOMAIN conversation

\* the documents get_documents("chatmessage", {"conversation_id": id}) matches
MatchingMessages(conversation_id) ==
    {i \in DOMAIN chatmessage : chatmessage[i].conversation_id = conversation_id}

\* what list_messages can return: the store hands back any Limited(...) of the
\* matching documents (no order is promised); each result is given as the set
\* of the documents in it
list_messages_results(conversation_id, limit) ==
    {S \in SUBSET MatchingMessages(conversation_id) :
        Cardinality(S) = Limited(Cardinality(MatchingMessages(conversation_id)), limit)}

\* the limits a caller passes to list_messages
Limits == {2, DefaultLimit}

\* the orders in which the store can hand back the documents of S
RECURSIVE Orderings(_)
Orderings(S) ==
    IF S = {} THEN {<<>>}
    ELSE UNION {{<<x>> \o s : s \in Orderings(S \ {x})} : x \in S}

\* list(cursor) of get_documents("chatmessage", {"conversation_id": id}, limit):
\* any Limited(...) of the matching documents, in any order
get_documents(conversation_id, limit) ==
    UNION {Orderings(S) : S \in list_messages_results(conversation_id, limit)}

\* the datetime an instant of the clock stands for: instants are half seconds
\* apart, so that some datetimes have microsecond = 0 and some have not
DateTimeOf(t) == [second |-> t \div 2, microsecond |-> (t % 2) * 500000]

\* n in decimal, zero-padded to width characters (character codes, "0" = 48)
Digits(n, width) == [i \in 1..width |-> 48 + ((n \div (10 ^ (width - i))) % 10)]

\* d.isoformat(): "...:SS" and, only when microsecond is not 0, ".ffffff"
\* ("." = 46); the fields before the seconds are the same in every datetime
\* of a run and are left out
isoformat(d) ==
    Digits(d.second, 2) \o
        (IF d.microsecond = 0 THEN <<>> ELSE <<46>> \o Digits(d.microsecond, 6))

\* a < b for two str
RECURSIVE StrLess(_, _)
StrLess(a, b) ==
    IF a = <<>> THEN b # <<>>
    ELSE IF b = <<>> THEN FALSE
    ELSE IF Head(a) # Head(b) THEN Head(a) < Head(b)
    ELSE StrLess(Tail(a), Tail(b))

\* key=lambda x: x.get("created_at", 0), after created_at was replaced by its
\* isoformat() (lines 264-266); i is the document's place in the collection
SortKey(i) == isoformat(DateTimeOf(chatmessage[i].created_at))

\* x put into the sorted list s, behind every element whose key is not greater
RECURSIVE Insert(_, _)
Insert(x, s) ==
    IF s = <<>> THEN <<x>>
    ELSE IF StrLess(SortKey(x), SortKey(Head(s))) THEN <<x>> \o s
    ELSE <<Head(s)>> \o Insert(x, Tail(s))

\* faulty variant, for comparison: the list is returned as the store gave it
sort_skipped(docs) == docs

\* docs.sort(key=...): stable, ascending by key
RECURSIVE sort(_)
sort(docs) ==
    IF docs = <<>> THEN <<>>
    ELSE Insert(docs[Len(docs)], sort(SubSeq(docs, 1, Len(docs) - 1)))

\* ------------------------------------------------------------------ Init
Init ==
    /\ db \in BOOLEAN
    /\ api_key \in BOOLEAN
    /\ now = 0
    /\ last_instant = 0
    /\ videorequest = <<>>
    /\ conversation = <<>>
    /\ chatmessage = <<>>
    /\ veo3_tasks = <<>>
    /\ volt_tasks = <<>>
    /\ calls = 0
    /\ returned = {}

\* the instants a second datetime.now() can read after a first read of t
Later(t) == {u \in {t, t + 1} : u <= last_instant}

\* time passes
Tick ==
    /\ now < last_instant
    /\ now' = now + 1
    /\ UNCHANGED <<db, api_key, last_instant, videorequest, conversation, chatmessage,
                   veo3_tasks, volt_tasks, calls, returned>>

\* ------------------------------------------------- POST /api/generate
\* 200, or the 500 of lines 150-151 (ValidationError, "Database not
\* available", a store error)
queue_generation_status(duration_seconds, write_ok) ==
    IF VideoRequestValid(duration_seconds) /\ db /\ write_ok THEN 200 ELSE 500

\* faulty variant, for comparison: a task is scheduled whatever the model
queue_generation_tasks_any_model(model, inserted_id) ==
    Append(veo3_tasks, Veo3Task(inserted_id))

\* the task list after line 146
queue_generation_tasks(model, inserted_id) ==
    IF model = "veo3" THEN Append(veo3_tasks, Veo3Task(inserted_id)) ELSE veo3_tasks

queue_generation ==
    \E prompt \in Prompts, model \in Models, duration_seconds \in Durations,
       write_ok \in BOOLEAN, u \in Later(now) :
        IF queue_generation_status(duration_seconds, write_ok) = 200
        THEN /\ calls < MaxCalls
             /\ calls' = calls + 1
             /\ videorequest' =
                    create_document(videorequest,
                        VideoRequest(prompt, model, duration_seconds, "16:9"), now, u)
             /\ now' = u
             /\ veo3_tasks' =
                    queue_generation_tasks(model, StrOfOid(Len(videorequest) + 1))
             /\ UNCHANGED <<db, api_key, last_instant, conversation, chatmessage,
                            volt_tasks, returned>>
        ELSE UNCHANGED vars

\* ------------------------------------------------- GET /api/requests
list_requests_status == IF db THEN 200 ELSE 500

list_requests ==
    /\ list_requests_status \in {200, 500}
    /\ UNCHANGED vars

\* ------------------------------------------------- process_veo3_job
\* veo3_tasks with task t moved to pc, holding exception e
Veo3At(t, pc, e) ==
    [veo3_tasks EXCEPT ![t].pc = pc, ![t].e = e,
                       ![t].fault = @ \/ pc \in {"except", "raised"}]

\* lines 90-100: the update the first write makes, and where the task goes
FirstUpdate == IF api_key THEN ProcessingUpdate ELSE NotConfiguredUpdate
AfterFirstUpdate == IF api_key THEN "sleep" ELSE "done"

process_veo3_job_start(t) ==
    /\ t \in DOMAIN veo3_tasks
    /\ veo3_tasks[t].pc = "start"
    /\ \E write_ok \in BOOLEAN, e \in ExcTexts :
        IF write_ok
        THEN /\ videorequest' =
                    update_document_by_id(videorequest, veo3_tasks[t].request_id,
                                          FirstUpdate, now)
             /\ veo3_tasks' = Veo3At(t, AfterFirstUpdate, None)
        ELSE /\ veo3_tasks' = Veo3At(t, "except", Some(e))
             /\ UNCHANGED videorequest
    /\ UNCHANGED <<db, api_key, now, last_instant, conversation, chatmessage,
                   volt_tasks, calls, returned>>

\* lines 103-119: after the sleep, the completing write
process_veo3_job_complete(t) ==
    /\ t \in DOMAIN veo3_tasks
    /\ veo3_tasks[t].pc = "sleep"
    /\ \E write_ok \in BOOLEAN, e \in ExcTexts :
        IF write_ok
        THEN /\ videorequest' =
                    update_document_by_id(videorequest, veo3_tasks[t].request_id,
                        CompletedUpdate(veo3_tasks[t].request_id), now)
             /\ veo3_tasks' = Veo3At(t, "done", None)
        ELSE /\ veo3_tasks' = Veo3At(t, "except", Some(e))
             /\ UNCHANGED videorequest
    /\ UNCHANGED <<db, api_key, now, last_instant, conversation, chatmessage,
                   volt_tasks, calls, returned>>

\* where a task goes when its except handler's own write raises: nothing
\* catches it, the exception leaves the task
HandlerRaises == "raised"

\* lines 120-125: the except handler's write
process_veo3_job_except(t) ==
    /\ t \in DOMAIN veo3_tasks
    /\ veo3_tasks[t].pc = "except"
    /\ \E write_ok \in BOOLEAN :
        IF write_ok
        THEN /\ videorequest' =
                    update_document_by_id(videorequest, veo3_tasks[t].request_id,
                        FailedUpdate(veo3_tasks[t].e[1]), now)
             /\ veo3_tasks' = Veo3At(t, "done", None)
        ELSE /\ veo3_tasks' = Veo3At(t, HandlerRaises, None)
             /\ UNCHANGED videorequest
    /\ UNCHANGED <<db, api_key, now, last_instant, conversation, chatmessage,
                   volt_tasks, calls, returned>>

\* ------------------------------------------------- POST /api/chat/conversations
\* 200, or the 500 of an exception no handler catches
create_conversation_status(ok1, ok2) == IF db /\ ok1 /\ ok2 THEN 200 ELSE 500

\* faulty variant, for comparison: the greeting is left to be written later
SeedGreeting_skipped(conv_id, c, u) == chatmessage

\* lines 238-242: the collection after the greeting's insert
SeedGreeting(conv_id, c, u) ==
    create_document(chatmessage, ChatMessage(conv_id, "assistant", Greeting, 0), c, u)

create_conversation ==
    \E title \in {"New Chat"}, ok1 \in BOOLEAN, ok2 \in BOOLEAN,
       u1 \in Later(now) :
      \E u2 \in Later(u1) :
        IF db /\ ok1
        THEN /\ calls < MaxCalls
             /\ calls' = calls + 1
             /\ conversation' =
                    create_document(conversation, Conversation(title, None), now, u1)
             /\ IF create_conversation_status(ok1, ok2) = 200
                THEN /\ chatmessage' = SeedGreeting(StrOfOid(Len(conversation) + 1), u1, u2)
                     /\ now' = u2
                     /\ returned' = returned \cup {StrOfOid(Len(conversation) + 1)}
                ELSE \* the greeting's insert raises
                     /\ now' = u1
                     /\ UNCHANGED <<chatmessage, returned>>
             /\ UNCHANGED <<db, api_key, last_instant, videorequest, veo3_tasks,
                            volt_tasks>>
        ELSE UNCHANGED vars

\* ------------------------------------------------- GET /api/chat/conversations
list_conversations_status == IF db THEN 200 ELSE 500

list_conversations ==
    /\ list_conversations_status \in {200, 500}
    /\ UNCHANGED vars

\* ------------------------------------------------- GET .../{id}/messages
list_messages_status == IF db THEN 200 ELSE 500

\* (what a 200 carries is sort(docs) for a docs of get_documents)
list_messages ==
    /\ list_messages_status \in {200, 500}
    /\ UNCHANGED vars

\* ------------------------------------------------- POST .../{id}/messages
\* faulty variant, for comparison: the conversation is not looked up
ConversationCheck_no_lookup(conversation_id) ==
    IF ~db THEN 400
    ELSE IF ~OidValid(conversation_id) THEN 400
    ELSE 200

\* lines 275-282: the status of the existence check, 200 when it passes.
\* db["conversation"] is evaluated before _oid(conversation_id): with db None
\* it raises TypeError, which the generic except turns into a 400
ConversationCheck(conversation_id) ==
    IF ~db THEN 400
    ELSE IF ~OidValid(conversation_id) THEN 400
    ELSE IF ~ConversationExists(ObjectId(conversation_id)) THEN 404
    ELSE 200

\* the check's status, or 200, or the 500 of the user message's insert raising
send_message_status(conversation_id, write_ok) ==
    IF ConversationCheck(conversation_id) # 200
    THEN ConversationCheck(conversation_id)
    ELSE IF write_ok THEN 200 ELSE 500

\* the collection and the task list send_message leaves
send_message_chatmessage(conversation_id, content, write_ok, c, u) ==
    IF send_message_status(conversation_id, write_ok) = 200
    THEN create_document(chatmessage,
                         ChatMessage(conversation_id, "user", content, 0), c, u)
    ELSE chatmessage

\* faulty variant, for comparison: the reply is scheduled before the user
\* message is stored, so also when that insert raises
send_message_tasks_before_insert(conversation_id, content, write_ok) ==
    IF ConversationCheck(conversation_id) = 200
    THEN Append(volt_tasks, VoltTask(conversation_id, content))
    ELSE volt_tasks

send_message_tasks(conversation_id, content, write_ok) ==
    IF send_message_status(conversation_id, write_ok) = 200
    THEN Append(volt_tasks, VoltTask(conversation_id, content))
    ELSE volt_tasks

send_message ==
    \E conversation_id \in IdStrings(Len(conversation)), content \in UserTexts,
       write_ok \in BOOLEAN, u \in Later(now) :
        /\ send_message_status(conversation_id, write_ok) = 200 => calls < MaxCalls
        /\ chatmessage' =
               send_message_chatmessage(conversation_id, content, write_ok, now, u)
        /\ volt_tasks' = send_message_tasks(conversation_id, content, write_ok)
        /\ IF send_message_status(conversation_id, write_ok) = 200
           THEN calls' = calls + 1 /\ now' = u
           ELSE UNCHANGED <<calls, now>>
        /\ UNCHANGED <<db, api_key, last_instant, videorequest, conversation,
                       veo3_tasks, returned>>

\* ------------------------------------------------- process_volt_reply
VoltAt(t, pc, e) ==
    [volt_tasks EXCEPT ![t].pc = pc, ![t].e = e,
                       ![t].fault = @ \/ pc \in {"except", "raised"}]

\* faulty variant, for comparison: the task returns without storing a reply
process_volt_reply_try_silent(t) ==
    /\ t \in DOMAIN volt_tasks
    /\ volt_tasks[t].pc = "start"
    /\ volt_tasks' = VoltAt(t, "done", None)
    /\ UNCHANGED <<db, api_key, now, last_instant, videorequest, conversation,
                   chatmessage, veo3_tasks, calls, returned>>

\* lines 189-218: the sleep, the heuristic and the reply's insert
process_volt_reply_try(t) ==
    /\ t \in DOMAIN volt_tasks
    /\ volt_tasks[t].pc = "start"
    /\ \E write_ok \in BOOLEAN, e \in ExcTexts, u \in Later(now) :
        IF write_ok
        THEN /\ chatmessage' =
                    create_document(chatmessage,
                        ChatMessage(volt_tasks[t].conversation_id, "assistant",
                                    VoltReply(volt_tasks[t].user_text), t), now, u)
             /\ now' = u
             /\ volt_tasks' = VoltAt(t, "done", None)
        ELSE /\ volt_tasks' = VoltAt(t, "except", Some(e))
             /\ UNCHANGED <<chatmessage, now>>
    /\ UNCHANGED <<db, api_key, last_instant, videorequest, conversation,
                   veo3_tasks, calls, returned>>

\* lines 219-225: the except handler's insert
process_volt_reply_except(t) ==
    /\ t \in DOMAIN volt_tasks
    /\ volt_tasks[t].pc = "except"
    /\ \E write_ok \in BOOLEAN, u \in Later(now) :
        IF write_ok
        THEN /\ chatmessage' =
                    create_document(chatmessage,
                        ChatMessage(volt_tasks[t].conversation_id, "assistant",
                                    OopsReply(volt_tasks[t].e[1]), t), now, u)
             /\ now' = u
             /\ volt_tasks' = VoltAt(t, "done", None)
        ELSE /\ volt_tasks' = VoltAt(t, HandlerRaises, None)
             /\ UNCHANGED <<chatmessage, now>>
    /\ UNCHANGED <<db, api_key, last_instant, videorequest, conversation,
                   veo3_tasks, calls, returned>>

\* ------------------------------------------------------------------ Next
\* a step of some scheduled background task
BackgroundStep ==
    \/ \E t \in DOMAIN veo3_tasks : process_veo3_job_start(t)
    \/ \E t \in DOMAIN veo3_tasks : process_veo3_job_complete(t)
    \/ \E t \in DOMAIN veo3_tasks : process_veo3_job_except(t)
    \/ \E t \in DOMAIN volt_tasks : process_volt_reply_try(t)
    \/ \E t \in DOMAIN volt_tasks : process_volt_reply_except(t)

Next ==
    \/ queue_generation
    \/ list_requests
    \/ create_conversation
    \/ list_conversations
    \/ list_messages
    \/ send_message
    \/ BackgroundStep

Spec == Init /\ [][Next]_vars

\* BackgroundTasks runs every task it was given, after the response is sent:
\* while a task has a step to take, one is taken
FairSpec == Spec /\ WF_vars(BackgroundStep)

\* the same program with the wall clock running
InitClock ==
    /\ db \in BOOLEAN
    /\ api_key \in BOOLEAN
    /\ now = 0
    /\ last_instant = MaxClock
    /\ videorequest = <<>>
    /\ conversation = <<>>
    /\ chatmessage = <<>>
    /\ veo3_tasks = <<>>
    /\ volt_tasks = <<>>
    /\ calls = 0
    /\ returned = {}

NextClock == Next \/ Tick

SpecClock == InitClock /\ [][NextClock]_vars

\* ------------------------------------------------- a crash of the process
\* BackgroundTasks keeps the scheduled tasks in the memory of the process: a
\* task that has not ended when the process dies is lost, at whatever point it
\* had reached
AfterCrash(task) ==
    IF task.pc \in {"done", "raised"} THEN task ELSE [task EXCEPT !.pc = "lost"]

\* faulty variant, for comparison: on restart the records of interrupted jobs
\* are marked failed
StoreAfterCrash_marks_failed(coll) ==
    [i \in DOMAIN coll |->
        IF coll[i].status = "processing"
        THEN SetFields(coll[i], FailedUpdate(Str("interrupted", 11)))
        ELSE coll[i]]

\* the store is a separate server and keeps what was written; nothing in the
\* program looks at old records when it starts again
StoreAfterCrash(coll) == coll

\* the process dies while some task is in flight, and is started again
Crash ==
    /\ \/ \E t \in DOMAIN veo3_tasks : AfterCrash(veo3_tasks[t]) # veo3_tasks[t]
       \/ \E t \in DOMAIN volt_tasks : AfterCrash(volt_tasks[t]) # volt_tasks[t]
    /\ veo3_tasks' = [t \in DOMAIN veo3_tasks |-> AfterCrash(veo3_tasks[t])]
    /\ volt_tasks' = [t \in DOMAIN volt_tasks |-> AfterCrash(volt_tasks[t])]
    /\ videorequest' = StoreAfterCrash(videorequest)
    /\ UNCHANGED <<db, api_key, now, last_instant, conversation, chatmessage,
                   calls, returned>>

NextCrash == Next \/ Crash

\* the same program in a process that can die and be started again
SpecCrash == Init /\ [][NextCrash]_vars

\* ================================================================ claims
\* the record a generation task was scheduled for
RecordOf(t) == videorequest[ObjectId(veo3_tasks[t].request_id)]

\* a task that has returned or raised
Veo3Finished(t) == veo3_tasks[t].pc \in {"done", "raised"}
VoltFinished(t) == volt_tasks[t].pc \in {"done", "raised"}

\* the tasks scheduled for record i
TasksOf(i) == {t \in DOMAIN veo3_tasks : ObjectId(veo3_tasks[t].request_id) = i}

AllowedChanges ==
    {<<"queued", "processing">>, <<"queued", "failed">>,
     <<"processing", "completed">>, <<"processing", "failed">>}

\* C1: a record is created queued, and the only status changes any step makes
\* are queued->processing, queued->failed, processing->completed and
\* processing->failed; so no step changes the status of a completed or failed
\* record.
C1_StatusChanges ==
    [][/\ \A i \in DOMAIN videorequest :
            /\ i \in DOMAIN videorequest'
            /\ videorequest'[i].status # videorequest[i].status
                  => <<videorequest[i].status, videorequest'[i].status>>
                        \in AllowedChanges
       /\ \A i \in (DOMAIN videorequest') \ (DOMAIN videorequest) :
            videorequest'[i].status = "queued"]_vars

\* one job went queued -> processing -> completed, another ended failed
C1_Witness ==
    \E i, j \in DOMAIN videorequest :
        /\ videorequest[i].status = "completed"
        /\ videorequest[j].status = "failed"

\* C2: in every reachable state, a record has both generated_url and
\* thumbnail_url if and only if it is completed, and has an error if and only
\* if it is failed.
C2_FieldsFollowStatus ==
    \A i \in DOMAIN videorequest :
        /\ (videorequest[i].generated_url # None /\ videorequest[i].thumbnail_url # None)
              <=> videorequest[i].status = "completed"
        /\ videorequest[i].error # None <=> videorequest[i].status = "failed"

\* every status is present at once, a failed record among them
C2_Witness ==
    /\ \E i \in DOMAIN videorequest :
          videorequest[i].status = "completed" /\ videorequest[i].generated_url # None
    /\ \E i \in DOMAIN videorequest :
          videorequest[i].status = "failed" /\ videorequest[i].error # None
    /\ \E i \in DOMAIN videorequest : videorequest[i].status = "queued"

\* C3 (as claimed): with no VEO3_API_KEY, a veo3 submission's record is never
\* processing, and once its task has ended the record is failed with a
\* non-empty error.
C3_NoCredentialEndsFailed ==
    ~api_key =>
        \A t \in DOMAIN veo3_tasks :
            /\ RecordOf(t).status # "processing"
            /\ Veo3Finished(t) =>
                  /\ RecordOf(t).status = "failed"
                  /\ RecordOf(t).error # None
                  /\ RecordOf(t).error[1].len > 0

\* C4 (as claimed): with VEO3_API_KEY set, once a veo3 submission's task has
\* ended (here: has returned) the record is completed, with both urls
\* non-empty and no error.
C4_CredentialEndsCompleted ==
    api_key =>
        \A t \in DOMAIN veo3_tasks :
            veo3_tasks[t].pc = "done" =>
                /\ RecordOf(t).status = "completed"
                /\ RecordOf(t).generated_url # None
                /\ Len(RecordOf(t).generated_url[1]) > 0
                /\ RecordOf(t).thumbnail_url # None
                /\ Len(RecordOf(t).thumbnail_url[1]) > 0
                /\ RecordOf(t).error = None

\* C4 (amended): with VEO3_API_KEY set, the task of a veo3 submission ends;
\* if none of its store writes raised, it ends with the record completed, both
\* urls non-empty and no error; if one raised, the record is never completed.
C4_CredentialEndsCompletedUnlessWriteRaises ==
    \A t \in 1..MaxCalls :
        /\ [](api_key /\ t \in DOMAIN veo3_tasks
                => <>(t \in DOMAIN veo3_tasks /\ Veo3Finished(t)))
        /\ [](api_key /\ t \in DOMAIN veo3_tasks =>
                /\ (Veo3Finished(t) /\ ~veo3_tasks[t].fault) =>
                      /\ RecordOf(t).status = "completed"
                      /\ RecordOf(t).generated_url # None
                      /\ Len(RecordOf(t).generated_url[1]) > 0
                      /\ RecordOf(t).thumbnail_url # None
                      /\ Len(RecordOf(t).thumbnail_url[1]) > 0
                      /\ RecordOf(t).error = None
                /\ veo3_tasks[t].fault => RecordOf(t).status # "completed")

\* a credentialed job has ended with no write raising, another after one raised
C4_Witness ==
    /\ api_key
    /\ \E t \in DOMAIN veo3_tasks :
          Veo3Finished(t) /\ ~veo3_tasks[t].fault /\ RecordOf(t).status = "completed"
    /\ \E t \in DOMAIN veo3_tasks : Veo3Finished(t) /\ veo3_tasks[t].fault

\* C5: a sora2 submission schedules no background task, and its record is
\* queued in every state.
C5_Sora2StaysQueued ==
    \A i \in DOMAIN videorequest :
        videorequest[i].model = "sora2" =>
            /\ TasksOf(i) = {}
            /\ videorequest[i].status = "queued"

\* a sora2 record is still queued after a veo3 job submitted after it has ended
C5_Witness ==
    \E i \in DOMAIN videorequest, t \in DOMAIN veo3_tasks :
        /\ videorequest[i].model = "sora2"
        /\ ObjectId(veo3_tasks[t].request_id) > i
        /\ Veo3Finished(t)

\* the assistant messages reply task t has written
RepliesOf(t) ==
    {i \in DOMAIN chatmessage :
        chatmessage[i].role = "assistant" /\ chatmessage[i].task = t}

UserMessages == {i \in DOMAIN chatmessage : chatmessage[i].role = "user"}

\* C6 (as claimed): every accepted send_message has appended one user message
\* and scheduled one reply task; a reply task never writes two assistant
\* messages, and once it has ended it has written exactly one, in the
\* conversation the user message was sent to.
C6_OneReplyPerUserMessage ==
    /\ Cardinality(UserMessages) = Len(volt_tasks)
    /\ \A t \in DOMAIN volt_tasks :
          /\ Cardinality(RepliesOf(t)) <= 1
          /\ VoltFinished(t) =>
                /\ Cardinality(RepliesOf(t)) = 1
                /\ \A i \in RepliesOf(t) :
                      chatmessage[i].conversation_id = volt_tasks[t].conversation_id

\* the ids send_message rejects: malformed, or naming no conversation
Malformed(conversation_id) == ~OidValid(conversation_id)
Unknown(conversation_id) ==
    OidValid(conversation_id) /\ ObjectId(conversation_id) \notin DOMAIN conversation

\* C7: with the store configured, send_message answers 400 to a malformed
\* conversation id and 404 to a well-formed id that names no conversation, and
\* in both cases leaves the messages and the scheduled reply tasks as they are.
C7_BadIdRejected ==
    db =>
        \A conversation_id \in IdStrings(Len(conversation)), content \in UserTexts,
           write_ok \in BOOLEAN :
            /\ Malformed(conversation_id)
                  => send_message_status(conversation_id, write_ok) = 400
            /\ Unknown(conversation_id)
                  => send_message_status(conversation_id, write_ok) = 404
            /\ Malformed(conversation_id) \/ Unknown(conversation_id) =>
                  /\ send_message_chatmessage(conversation_id, content, write_ok,
                                              now, now) = chatmessage
                  /\ send_message_tasks(conversation_id, content, write_ok)
                        = volt_tasks

\* a conversation exists and has taken a user message, while another id names
\* no conversation
C7_Witness ==
    /\ db
    /\ UserMessages # {}
    /\ \E conversation_id \in IdStrings(Len(conversation)) :
          Unknown(conversation_id)
          /\ send_message_status(conversation_id, TRUE) = 404
    /\ \E conversation_id \in IdStrings(Len(conversation)) :
          Malformed(conversation_id)
          /\ send_message_status(conversation_id, TRUE) = 400

\* C8 (as claimed): with the store not configured, every operation that needs
\* persistence answers 500, whatever its inputs, and nothing is stored or
\* scheduled.
C8_StoreUnavailableIs500 ==
    ~db =>
        /\ \A duration_seconds \in Durations, write_ok \in BOOLEAN :
              queue_generation_status(duration_seconds, write_ok) = 500
        /\ list_requests_status = 500
        /\ \A ok1, ok2 \in BOOLEAN : create_conversation_status(ok1, ok2) = 500
        /\ list_conversations_status = 500
        /\ list_messages_status = 500
        /\ \A conversation_id \in IdStrings(Len(conversation)), write_ok \in BOOLEAN :
              send_message_status(conversation_id, write_ok) = 500
        /\ videorequest = <<>> /\ conversation = <<>> /\ chatmessage = <<>>
        /\ veo3_tasks = <<>> /\ volt_tasks = <<>>

\* C9 (as claimed): no background task lets an exception out; a generation
\* task in which a write raised ends with its record failed and an error of
\* at most 500 characters, and a reply task in which a write raised ends
\* having written an assistant message whose error text has at most 300.
C9_TasksNeverRaise ==
    /\ \A t \in DOMAIN veo3_tasks :
          /\ veo3_tasks[t].pc # "raised"
          /\ (veo3_tasks[t].fault /\ Veo3Finished(t)) =>
                /\ RecordOf(t).status = "failed"
                /\ RecordOf(t).error # None
                /\ RecordOf(t).error[1].len <= ErrorSlice
    /\ \A t \in DOMAIN volt_tasks :
          /\ volt_tasks[t].pc # "raised"
          /\ (volt_tasks[t].fault /\ VoltFinished(t)) =>
                \E i \in RepliesOf(t) :
                    /\ chatmessage[i].content.kind = "oops"
                    /\ chatmessage[i].content.len <= ReplyErrorSlice

\* C10: for every conversation id create_conversation has returned, whatever
\* list_messages (default limit) returns for it holds a message with role
\* assistant; no background task is needed for that.
C10_GreetingListed ==
    \A conversation_id \in returned :
        \A S \in list_messages_results(conversation_id, DefaultLimit) :
            \E i \in S : chatmessage[i].role = "assistant"

\* a conversation id has been returned and a message sent to it, and no
\* background task has taken a step
C10_Witness ==
    /\ returned # {}
    /\ volt_tasks # <<>>
    /\ \A t \in DOMAIN volt_tasks : volt_tasks[t].pc = "start"
    /\ \A t \in DOMAIN veo3_tasks : veo3_tasks[t].pc = "start"

\* C11: for every conversation id, every limit and every order in which the
\* store hands back the matching messages, what list_messages returns holds
\* the same messages, in non-decreasing created_at order.
C11_ListMessagesSorted ==
    \A conversation_id \in IdStrings(Len(conversation)), limit \in Limits :
        \A docs \in get_documents(conversation_id, limit) :
            LET items == sort(docs) IN
                /\ Len(items) = Len(docs)
                /\ {items[k] : k \in 1..Len(docs)} = {docs[k] : k \in 1..Len(docs)}
                /\ \A k \in 1..(Len(docs) - 1) :
                      chatmessage[items[k]].created_at
                          <= chatmessage[items[k + 1]].created_at

\* the store hands back a later message before an earlier one, one of the two
\* created at a whole second
C11_Witness ==
    \E conversation_id \in IdStrings(Len(conversation)) :
        \E docs \in get_documents(conversation_id, DefaultLimit) :
            /\ Len(docs) >= 2
            /\ chatmessage[docs[1]].created_at > chatmessage[docs[2]].created_at
            /\ DateTimeOf(chatmessage[docs[2]].created_at).microsecond = 0
            /\ sort(docs) # docs

\* the update dictionaries the program passes to update_document_by_id
Updates ==
    {NotConfiguredUpdate, ProcessingUpdate, CompletedUpdate(StrOfOid(1))}
        \cup {FailedUpdate(e) : e \in ExcTexts}

\* a well-formed id that matches no document of coll
Unmatched(coll, doc_id) == OidValid(doc_id) /\ ObjectId(doc_id) \notin DOMAIN coll

\* C12: with the store configured and answering, update_document_by_id with a
\* well-formed id that matches no record returns 0 and raises nothing, and the
\* collection it leaves is the one it found: no record added, none changed.
C12_UpdateOfUnknownId ==
    db =>
        \A doc_id \in IdStrings(Len(videorequest)), update \in Updates,
           t \in 0..MaxClock :
            Unmatched(videorequest, doc_id) =>
                /\ update_document_by_id_result(videorequest, doc_id)
                      = [modified_count |-> 0]
                /\ update_document_by_id(videorequest, doc_id, update, t)
                      = videorequest

\* the collection holds records that updates have changed, and an id that
\* matches none of them gets a modified count of 0
C12_Witness ==
    /\ db
    /\ \E i, j \in DOMAIN videorequest :
          videorequest[i].status = "completed" /\ videorequest[j].status = "queued"
    /\ \E doc_id \in IdStrings(Len(videorequest)) :
          /\ Unmatched(videorequest, doc_id)
          /\ update_document_by_id_result(videorequest, doc_id).modified_count = 0

\* the user messages, the reply tasks and the replies (the greeting is not
\* one: no task wrote it) of one conversation
UserMessagesIn(c) == {i \in UserMessages : chatmessage[i].conversation_id = c}
VoltTasksIn(c) == {t \in DOMAIN volt_tasks : volt_tasks[t].conversation_id = c}
RepliesIn(c) ==
    {i \in DOMAIN chatmessage :
        /\ chatmessage[i].conversation_id = c
        /\ chatmessage[i].role = "assistant"
        /\ chatmessage[i].task # 0}

\* the user message whose send_message scheduled reply task t: the t-th one
UserMessageOf(t) ==
    CHOOSE i \in UserMessages : Cardinality({j \in UserMessages : j <= i}) = t

\* C13: every scheduled reply task has its user message in the ledger, in its
\* conversation and with its text, and every reply it appends comes after that
\* message; so in every state a conversation has at most as many reply tasks
\* as user messages and at most as many replies (greeting excluded) as user
\* messages.
C13_UserMessageThenTaskThenReply ==
    /\ \A t \in DOMAIN volt_tasks :
          /\ \E i \in UserMessages : Cardinality({j \in UserMessages : j <= i}) = t
          /\ chatmessage[UserMessageOf(t)].conversation_id
                = volt_tasks[t].conversation_id
          /\ chatmessage[UserMessageOf(t)].content = volt_tasks[t].user_text
          /\ \A i \in RepliesOf(t) :
                /\ UserMessageOf(t) < i
                /\ chatmessage[i].conversation_id = volt_tasks[t].conversation_id
    /\ \A c \in {StrOfOid(n) : n \in DOMAIN conversation} :
          /\ Cardinality(VoltTasksIn(c)) <= Cardinality(UserMessagesIn(c))
          /\ Cardinality(RepliesIn(c)) <= Cardinality(UserMessagesIn(c))

\* a conversation with two user messages, one of them answered and the other
\* with its reply task still to run
C13_Witness ==
    \E c \in {StrOfOid(n) : n \in DOMAIN conversation} :
        /\ Cardinality(UserMessagesIn(c)) = 2
        /\ Cardinality(RepliesIn(c)) = 1
        /\ \E t \in VoltTasksIn(c) : volt_tasks[t].pc = "start"

\* C14: every record has at most one background task and every task is bound
\* to an existing record of a veo3 submission; a step that changes a record is
\* a step of the one task bound to it, and it changes no other record and
\* moves no other task.
C14_OneTaskPerRecord ==
    /\ [](/\ \A i \in DOMAIN videorequest : Cardinality(TasksOf(i)) <= 1
          /\ \A t \in DOMAIN veo3_tasks :
                /\ OidValid(veo3_tasks[t].request_id)
                /\ ObjectId(veo3_tasks[t].request_id) \in DOMAIN videorequest
                /\ RecordOf(t).model = "veo3")
    /\ [][\A i \in DOMAIN videorequest :
            (i \in DOMAIN videorequest' /\ videorequest'[i] # videorequest[i]) =>
                /\ \E t \in TasksOf(i) :
                      /\ veo3_tasks'[t].pc # veo3_tasks[t].pc
                      /\ \A u \in (DOMAIN veo3_tasks) \ {t} :
                            veo3_tasks'[u] = veo3_tasks[u]
                /\ \A j \in (DOMAIN videorequest) \ {i} :
                      videorequest'[j] = videorequest[j]]_vars

\* two submissions with the same prompt are in flight at once, at different
\* points of their tasks
C14_Witness ==
    \E t, u \in DOMAIN veo3_tasks :
        /\ t # u
        /\ RecordOf(t).prompt = RecordOf(u).prompt
        /\ veo3_tasks[t].pc = "sleep" /\ RecordOf(t).status = "processing"
        /\ veo3_tasks[u].pc = "start" /\ RecordOf(u).status = "queued"

\* C15: of two reply tasks of one conversation that have both returned, each
\* has appended exactly one reply, two in all, in whichever order the two ran
\* (the order itself is not fixed: C15_Witness).
C15_TwoRepliesInEitherOrder ==
    \A t, u \in DOMAIN volt_tasks :
        (/\ t < u
         /\ volt_tasks[t].conversation_id = volt_tasks[u].conversation_id
         /\ volt_tasks[t].pc = "done" /\ volt_tasks[u].pc = "done") =>
            /\ Cardinality(RepliesOf(t)) = 1
            /\ Cardinality(RepliesOf(u)) = 1
            /\ Cardinality(RepliesOf(t) \cup RepliesOf(u)) = 2

\* two messages were sent to one conversation before either reply was
\* written; the reply to the later one was appended before the reply to the
\* earlier one, and the conversation has exactly two replies
C15_Witness ==
    \E t, u \in DOMAIN volt_tasks :
        /\ t < u
        /\ volt_tasks[t].conversation_id = volt_tasks[u].conversation_id
        /\ UserMessageOf(t) < UserMessageOf(u)
        /\ \E i \in RepliesOf(t), j \in RepliesOf(u) : UserMessageOf(u) < j /\ j < i
        /\ Cardinality(RepliesIn(volt_tasks[t].conversation_id)) = 2

\* C16 (as claimed): the record of a generation task that a crash interrupted
\* is queued.
C16_CrashLeavesQueued ==
    \A t \in DOMAIN veo3_tasks :
        veo3_tasks[t].pc = "lost" => RecordOf(t).status = "queued"

\* C16 (amended): the record of a generation task that a crash interrupted
\* keeps for good the status it had at the crash, which is queued or
\* processing (and queued when no VEO3_API_KEY is set): no later step changes
\* the record or revives the task.
C16_CrashLeavesStatusAsItWas ==
    /\ [](\A t \in DOMAIN veo3_tasks :
            veo3_tasks[t].pc = "lost" =>
                /\ RecordOf(t).status \in {"queued", "processing"}
                /\ ~api_key => RecordOf(t).status = "queued")
    /\ [][\A t \in DOMAIN veo3_tasks :
            veo3_tasks[t].pc = "lost" =>
                /\ veo3_tasks'[t] = veo3_tasks[t]
                /\ videorequest'[ObjectId(veo3_tasks[t].request_id)] = RecordOf(t)]_vars

\* a crash interrupted one job before its first write and another during the
\* provider call; a job submitted after the restart has run to its end
C16_Witness ==
    \E t, u, v \in DOMAIN veo3_tasks :
        /\ veo3_tasks[t].pc = "lost" /\ RecordOf(t).status = "queued"
        /\ veo3_tasks[u].pc = "lost" /\ RecordOf(u).status = "processing"
        /\ veo3_tasks[v].pc = "done" /\ RecordOf(v).status = "completed"
        /\ v > t /\ v > u

\* what C17 asks of one collection in one step (before, after) ending at
\* instant t: a record inserted by the step has created_at = updated_at, a
\* record changed by the step has updated_at = t, and every record is still
\* there with the created_at it had
StampsKept(before, after, t) ==
    /\ \A i \in (DOMAIN after) \ (DOMAIN before) :
          after[i].created_at = after[i].updated_at
    /\ \A i \in DOMAIN before :
          /\ i \in DOMAIN after
          /\ after[i].created_at = before[i].created_at
          /\ after[i] # before[i] => after[i].updated_at = t

\* C17 (as claimed): in every collection, a record is inserted with
\* created_at equal to updated_at, every update sets updated_at to the instant
\* of the update, and no step changes a created_at.
C17_CreatedEqualsUpdatedAtInsert ==
    [][/\ StampsKept(videorequest, videorequest', now')
       /\ StampsKept(conversation, conversation', now')
       /\ StampsKept(chatmessage, chatmessage', now')]_vars

\* every document of before is in after, at its place and as it was
Extends(after, before) ==
    /\ Len(before) <= Len(after)
    /\ \A i \in DOMAIN before : after[i] = before[i]

\* C18: every step leaves each existing Conversation and ChatMessage in place
\* and as it was, so the chat operations and the reply task only add records;
\* and a step of a generation operation or task (one that changes videorequest
\* or the generation tasks) leaves both collections unchanged.
C18_LedgerAppendOnly ==
    [][/\ Extends(conversation', conversation)
       /\ Extends(chatmessage', chatmessage)
       /\ (videorequest' # videorequest \/ veo3_tasks' # veo3_tasks) =>
             (conversation' = conversation /\ chatmessage' = chatmessage)]_vars

\* the ledger holds a greeting, a user message and a reply, and a generation
\* job has run next to them
C18_Witness ==
    /\ \E i \in DOMAIN chatmessage : chatmessage[i].content = Greeting
    /\ UserMessages # {}
    /\ \E t \in DOMAIN volt_tasks : RepliesOf(t) # {}
    /\ \E i \in DOMAIN videorequest : videorequest[i].status = "failed"

\* the fields of a GenerationRequest that are fixed at creation (its id is its
\* place in the collection)
FixedFields == {"prompt", "model", "duration_seconds", "aspect_ratio", "created_at"}

\* C19: every step keeps every GenerationRequest, at its place, with the same
\* fields, and with prompt, model, duration_seconds, aspect_ratio and
\* created_at as they were; a step that changes a record at all is a step of
\* the background task scheduled for that record.
C19_OnlyRunnerChangesRecord ==
    [][\A i \in DOMAIN videorequest :
          /\ i \in DOMAIN videorequest'
          /\ DOMAIN videorequest'[i] = DOMAIN videorequest[i]
          /\ \A k \in FixedFields : videorequest'[i][k] = videorequest[i][k]
          /\ videorequest'[i] # videorequest[i] =>
                \E t \in TasksOf(i) : veo3_tasks'[t].pc # veo3_tasks[t].pc]_vars

\* the runner has completed a job at a later instant than its submission,
\* next to a record no task was scheduled for
C19_Witness ==
    \E i, j \in DOMAIN videorequest :
        /\ videorequest[i].status = "completed"
        /\ videorequest[i].created_at = 0
        /\ videorequest[i].updated_at = MaxClock
        /\ TasksOf(j) = {}

====
